---- MODULE Spec2Model ----
(***************************************************************************)
(* State-machine model of quick.py: the CH341 USB-to-I2C driver (class     *)
(* CH341), its status decoder (class PinState) and the bus scanner (scan). *)
(* The USB device (pyusb dev.write / dev.read / dev.ctrl_transfer) is the  *)
(* environment: every transfer may raise, a bulk-out write may report a    *)
(* short count, a bulk-in read returns at most the requested length.       *)
(***************************************************************************)
EXTENDS Integers, Sequences, FiniteSets, TLC

(* ------------------------------ bounds --------------------------------- *)
MaxCount == 97      \* largest eeprom_read count tried
MaxSpeed == 800     \* largest set_speed argument tried (kHz)
MaxZero == 1        \* zero-length bulk-in reads that are counted per call
MaxReply == 2       \* reply lengths 1..MaxReply (and the 32-byte maximum) are tried

(* --------------------------- program constants ------------------------- *)
VendorCommands_I2C == 170          \* 0xaa
VendorCommands_I2C_STATUS == 82    \* 0x52
I2CCommands_STA == 116             \* 0x74
I2CCommands_STO == 117             \* 0x75
I2CCommands_OUT == 128             \* 0x80
I2CCommands_IN == 192              \* 0xc0
I2CCommands_MAX == 32
I2CCommands_SET == 96              \* 0x60
I2CCommands_END == 0
ScanRange == 250                   \* range(250) in scan
EepromLimit == 2047                \* 0x7ff

\* The PinState masks are 32-bit values; a 32-bit value is held as the pair
\* <<high 16 bits, low 16 bits>>.
PinState_ERR == <<0, 256>>         \* 0x100
PinState_PEMP == <<0, 512>>        \* 0x200
PinState_INT == <<0, 1024>>        \* 0x400
PinState_SLCT == <<0, 2048>>       \* 0x800
PinState_WAIT == <<0, 8192>>       \* 0x2000
PinState_DATAS == <<0, 16384>>     \* 0x4000
PinState_ADDRS == <<0, 32768>>     \* 0x8000
PinState_RESET == <<1, 0>>         \* 0x10000
PinState_WRITE == <<2, 0>>         \* 0x20000
PinState_SCL == <<64, 0>>          \* 0x400000
PinState_SDA == <<128, 0>>         \* 0x800000
PinState_DXX == <<65280, 0>>       \* 0xff000000

(* ---------------------- Python integer operators ----------------------- *)
RECURSIVE Pow2(_)
Pow2(n) == IF n = 0 THEN 1 ELSE 2 * Pow2(n - 1)

\* a & b for b >= 0; a may be negative (Python's infinite two's complement)
RECURSIVE BitAnd(_, _)
BitAnd(a, b) ==
    IF b = 0 THEN 0
    ELSE (a % 2) * (b % 2) + 2 * BitAnd(a \div 2, b \div 2)

\* a | b for a, b >= 0
RECURSIVE BitOr(_, _)
BitOr(a, b) ==
    IF a = 0 THEN b
    ELSE IF b = 0 THEN a
    ELSE (IF a % 2 = 1 \/ b % 2 = 1 THEN 1 ELSE 0) + 2 * BitOr(a \div 2, b \div 2)

\* a >> n (arithmetic shift: floor division)
ShiftRight(a, n) == a \div Pow2(n)

Min(a, b) == IF a < b THEN a ELSE b

Zeros(n) == [k \in 1..n |-> 0]

(* ------------------------- return values ------------------------------- *)
RetNone == [kind |-> "none", b |-> FALSE, bytes |-> <<>>]
RetBool(v) == [kind |-> "bool", b |-> v, bytes |-> <<>>]
RetBytes(s) == [kind |-> "bytes", b |-> FALSE, bytes |-> s]
RetList(s) == [kind |-> "list", b |-> FALSE, bytes |-> s]

(* --------------------------- command codec ----------------------------- *)
\* variant: the tier boundaries compared with <=
SpeedBit_RoundUp(speed) ==
    IF speed <= 100 THEN 0
    ELSE IF speed <= 400 THEN 1
    ELSE IF speed <= 750 THEN 2
    ELSE 3

\* set_speed: the tier selection and the 3-byte buffer
SpeedBit(speed) ==
    IF speed < 100 THEN 0
    ELSE IF speed < 400 THEN 1
    ELSE IF speed < 750 THEN 2
    ELSE 3

SpeedCmd(speed) ==
    <<VendorCommands_I2C, BitOr(I2CCommands_SET, SpeedBit(speed)), I2CCommands_END>>

StartCmd == <<VendorCommands_I2C, I2CCommands_STA, I2CCommands_END>>

\* variant: the end opcode left out
StopCmd_NoEnd == <<VendorCommands_I2C, I2CCommands_STO>>

StopCmd == <<VendorCommands_I2C, I2CCommands_STO, I2CCommands_END>>

DetectCmd(addr) ==
    <<VendorCommands_I2C, I2CCommands_STA, I2CCommands_OUT, addr,
      I2CCommands_STO, I2CCommands_END>>

WriteByteCmd(bb) ==
    <<VendorCommands_I2C, I2CCommands_OUT, bb, I2CCommands_END>>

ReadBlockCmd == <<VendorCommands_I2C, I2CCommands_IN, I2CCommands_END>>

\* variant: the offset shifted by 8 instead of 7
EepCmd_Shift8(addr, st) ==
    <<BitOr(addr, BitAnd(ShiftRight(st, 8), 14)), BitAnd(st, 255)>>

\* eeprom_read: eep_cmd = [address | (start >> 7) & 0x0e, (start & 0xff)]
EepCmd(addr, st) ==
    <<BitOr(addr, BitAnd(ShiftRight(st, 7), 14)), BitAnd(st, 255)>>

\* eeprom_read: the part of cmd common to both paths
EepromHead(addr, st) ==
    <<VendorCommands_I2C, I2CCommands_STA,
      BitOr(I2CCommands_OUT, Len(EepCmd(addr, st)))>>
    \o EepCmd(addr, st)
    \o <<I2CCommands_STA, BitOr(I2CCommands_OUT, 1), BitOr(addr, 1)>>

\* variant: the length not reduced by one (the form commented out in i2c_read_block)
EepromSingleCmd_NoMinusOne(addr, st, cnt) ==
    EepromHead(addr, st)
    \o (IF cnt > 1 THEN <<BitOr(I2CCommands_IN, cnt)>> ELSE <<>>)
    \o <<I2CCommands_IN, I2CCommands_STO, I2CCommands_END>>

\* eeprom_read, count <= 32
EepromSingleCmd(addr, st, cnt) ==
    EepromHead(addr, st)
    \o (IF cnt > 1 THEN <<BitOr(I2CCommands_IN, cnt - 1)>> ELSE <<>>)
    \o <<I2CCommands_IN, I2CCommands_STO, I2CCommands_END>>

\* eeprom_read, count > 32: the continuation block
EepromTail(cnt) ==
    <<VendorCommands_I2C>>
    \o (IF cnt - 1 - 32 > 0 THEN <<BitOr(I2CCommands_IN, cnt - 1 - 32)>> ELSE <<>>)
    \o <<I2CCommands_IN, I2CCommands_STO, I2CCommands_END>>

\* variant: the first block not padded
EepromMultiCmd_NoPad(addr, st, cnt) ==
    EepromHead(addr, st) \o <<BitOr(I2CCommands_IN, 32)>> \o EepromTail(cnt)

\* eeprom_read, count > 32
EepromMultiCmd(addr, st, cnt) ==
    LET first == EepromHead(addr, st) \o <<BitOr(I2CCommands_IN, 32)>>
    IN  first \o Zeros(32 - Len(first)) \o EepromTail(cnt)

EepromCmd(addr, st, cnt) ==
    IF cnt <= 32 THEN EepromSingleCmd(addr, st, cnt)
    ELSE EepromMultiCmd(addr, st, cnt)

\* variant: the wrong bit tested
AckBit_Bit6(r) == BitAnd(r, 64) = 0

\* the ack test of i2c_detect and i2c_write_byte_check: not (rval[0] & 0x80)
AckBit(r) == BitAnd(r, 128) = 0

(* --------------------------- status decoder ---------------------------- *)
\* bitwise operations on 32-bit values held as <<high, low>>
WordAnd(v, m) == <<BitAnd(v[1], m[1]), BitAnd(v[2], m[2])>>

WordTrue(v) == v[1] # 0 \/ v[2] # 0

\* v >> n for n >= 16
WordShiftRight(v, n) == ShiftRight(v[1], n - 16)

\* variant: little-endian unpacking
UnpackI_LittleEndian(bits) == <<bits[4] * 256 + bits[3], bits[2] * 256 + bits[1]>>

\* struct.unpack_from(">IH", bytearray(bits))[0]
UnpackI(bits) == <<bits[1] * 256 + bits[2], bits[3] * 256 + bits[4]>>

FlagIf(v, mask, name) == IF WordTrue(WordAnd(v, mask)) THEN <<name>> ELSE <<>>

DName(k) == <<"D0", "D1", "D2", "D3", "D4", "D5", "D6", "D7">>[k + 1]

RECURSIVE DataNames(_, _)
DataNames(datax, k) ==
    IF k = 8 THEN <<>>
    ELSE (IF BitAnd(Pow2(k), datax) # 0 THEN <<DName(k)>> ELSE <<>>)
         \o DataNames(datax, k + 1)

PinNames(v) ==
    FlagIf(v, PinState_ERR, "ERR") \o FlagIf(v, PinState_PEMP, "PEMP")
    \o FlagIf(v, PinState_INT, "INT") \o FlagIf(v, PinState_SLCT, "SLCT")
    \o FlagIf(v, PinState_WAIT, "WAIT") \o FlagIf(v, PinState_DATAS, "DATAS")
    \o FlagIf(v, PinState_ADDRS, "ADDRS") \o FlagIf(v, PinState_RESET, "RESET")
    \o FlagIf(v, PinState_WRITE, "WRITE") \o FlagIf(v, PinState_SCL, "SCL")
    \o FlagIf(v, PinState_SDA, "SDA")
    \o (IF WordTrue(WordAnd(v, PinState_DXX))
        THEN DataNames(WordShiftRight(WordAnd(v, PinState_DXX), 24), 0)
        ELSE <<>>)

PinState(bits) ==
    [as_bits |-> UnpackI(bits), names |-> PinNames(UnpackI(bits))]

NoPins == [as_bits |-> <<0, 0>>, names |-> <<>>]

(* ------------------------------ state ---------------------------------- *)
VARIABLES
    pc,          \* position of the running call: "idle", a step label, "done", "failed"
    op,          \* the operation called last
    caller,      \* "direct", or "scan" while i2c_detect runs on behalf of scan
    address, start, count,   \* arguments of eeprom_read
    arg,         \* argument of the one-argument operations (speed, addr, bb, length)
    cmd,         \* the command buffer built by the operation
    nCtrl, nOut, nIn,        \* transfers issued by this call: control, bulk-out, bulk-in
    nZero,       \* bulk-in reads of this call that returned no byte (counted up to MaxZero)
    shortWrite,  \* the bulk-out write of this call reported a wrong byte count
    read_count, rval,        \* locals of the read paths
    devpos,      \* bytes the device has delivered on bulk-in during this call
    requested,   \* the length asked for by the last bulk-in read of this call
    ret, err,    \* value returned / exception raised by the call
    iss, pins,   \* last raw status block and its PinState
    i, results,  \* locals of scan
    printed,     \* what scan printed as its list of responders
    dev          \* the attached device: acknowledging addresses, bulk-in ceiling

vars == <<pc, op, caller, address, start, count, arg, cmd, nCtrl, nOut, nIn, nZero,
          shortWrite, read_count, rval, devpos, ret, err, iss, pins, i, results,
          printed, dev, requested>>

(* ----------------------------- input sets ------------------------------ *)
Devices ==
    { [present |-> {80, 87}, cap |-> I2CCommands_MAX],
      [present |-> {},       cap |-> MaxCount + 1],
      [present |-> {0, 249}, cap |-> I2CCommands_MAX] }

Addresses == {160, 166}
Starts == {-1, 0, EepromLimit, EepromLimit + 1}
Counts == {1, 2, 16, 32, 33, 34, 65, 66} \cup (96..MaxCount)
Speeds == 0..MaxSpeed
ProbeAddrs == {0, 80, 81, 87, 249}
Bytes == 0..255
WriteBytes == {0, 160, 161}
BlockLengths == {1, 6, I2CCommands_MAX}

\* byte k of the data the device streams on bulk-in
Data(k) == (k * 37 + 11) % 256

Chunk(pos, n) == [j \in 1..n |-> Data(pos + j - 1)]

\* lengths a bulk-in read of req bytes may return
ReadLens(req) == {n \in {0, 1, Min(req, dev.cap)} : n <= req}

\* 8-byte status blocks returned by the I2C_STATUS control read
SingleBit(k) == [j \in 1..8 |-> IF j = 4 - (k \div 8) THEN Pow2(k % 8) ELSE 0]

StatusBlocks ==
    { SingleBit(k) : k \in 0..31 }
    \cup { <<0, 0, 0, 0, 0, 0, 0, 0>>,
           <<0, 128, 1, 0, 0, 0, 0, 0>>,
           <<0, 128, 1, 0, 255, 255, 18, 52>>,
           <<0, 0, 0, 0, 1, 128, 255, 255>>,
           <<255, 255, 255, 255, 255, 255, 0, 0>>,
           <<165, 195, 34, 7, 0, 1, 2, 3>> }

\* low seven bits of the reply to a probe
ReplyLows == IF caller = "scan" THEN {0, 127} ELSE 0..127

\* lengths of a non-empty reply
ReplyLens == (1..MaxReply) \cup {I2CCommands_MAX}

\* replies of the device to the probe of address a
ProbeReplies(a) ==
    { <<>> } \cup
    { <<(IF a \in dev.present THEN 0 ELSE 128) + low>> \o Zeros(n - 1) :
        low \in ReplyLows, n \in ReplyLens }

ByteReplies == { <<>> } \cup { <<r>> \o Zeros(n - 1) : r \in Bytes, n \in ReplyLens }

(* ------------------------------- Init ---------------------------------- *)
Idle(d) ==
    /\ pc = "idle" /\ op = "none" /\ caller = "direct"
    /\ address = 0 /\ start = 0 /\ count = 0 /\ arg = 0
    /\ cmd = <<>>
    /\ nCtrl = 0 /\ nOut = 0 /\ nIn = 0 /\ nZero = 0
    /\ shortWrite = FALSE
    /\ read_count = 0 /\ rval = <<>> /\ devpos = 0 /\ requested = 0
    /\ ret = RetNone /\ err = ""
    /\ iss = <<>> /\ pins = NoPins
    /\ i = 0 /\ results = <<>> /\ printed = <<>>
    /\ dev = d

Init == \E d \in Devices : Idle(d)

(* ------------------------------ helpers -------------------------------- *)
\* a call starts: fresh locals, fresh transfer counters
Begin(o, ad, st, ct, x, command, next, e) ==
    /\ pc = "idle"
    /\ op' = o /\ caller' = "direct"
    /\ address' = ad /\ start' = st /\ count' = ct /\ arg' = x
    /\ cmd' = command
    /\ nCtrl' = 0 /\ nOut' = 0 /\ nIn' = 0 /\ nZero' = 0
    /\ shortWrite' = FALSE
    /\ read_count' = 0 /\ rval' = <<>> /\ devpos' = 0 /\ requested' = 0
    /\ ret' = RetNone /\ err' = e
    /\ iss' = <<>> /\ pins' = NoPins
    /\ i' = 0 /\ results' = <<>> /\ printed' = <<>>
    /\ pc' = next
    /\ UNCHANGED dev

Raise(e) == pc' = "failed" /\ err' = e /\ ret' = RetNone

Return(v) == pc' = "done" /\ ret' = v /\ UNCHANGED err

\* variant: the reported count is not checked
WriteOk_Unchecked(cnt, command) == TRUE

\* assert(cnt == len(cmd))
WriteOk(cnt, command) == cnt = Len(command)

\* variant: longer replies let through
ReplyOk_AtLeastOne(reply) == Len(reply) >= 1

\* assert(len(rval) == 1)
ReplyOk(reply) == Len(reply) = 1

\* cnt = self.dev.write(self.EP_OUT, cmd); assert(cnt == len(cmd))
\* afterwards the call is at `next`, or has failed
BulkOut(next) ==
    /\ nOut' = nOut + 1
    /\ \/ /\ Raise("USBError")
          /\ UNCHANGED shortWrite
       \/ \E cnt \in {Len(cmd), Len(cmd) - 1, 0} :
            IF WriteOk(cnt, cmd)
            THEN /\ pc' = next
                 /\ shortWrite' = (cnt # Len(cmd))
                 /\ UNCHANGED <<ret, err>>
            ELSE /\ Raise("AssertionError")
                 /\ shortWrite' = TRUE

\* bookkeeping of one bulk-in read that returned n bytes
BulkInCount(n) ==
    IF n = 0 /\ nZero = MaxZero
    THEN UNCHANGED <<nIn, nZero, devpos>>
    ELSE /\ nIn' = nIn + 1
         /\ nZero' = IF n = 0 THEN nZero + 1 ELSE nZero
         /\ devpos' = devpos + n

\* self.vendor_read(VendorCommands.I2C_STATUS, 0, 0, 8); PinState(iss)
StatusRead(next) ==
    /\ nCtrl' = nCtrl + 1
    /\ \/ /\ Raise("USBError")
          /\ UNCHANGED <<iss, pins>>
       \/ \E b \in StatusBlocks :
            /\ iss' = b
            /\ pins' = PinState(b)
            /\ pc' = next
            /\ UNCHANGED <<ret, err>>

locals == <<read_count, rval, i, results, printed, requested>>
args == <<op, caller, address, start, count, arg, cmd, dev>>

(* ------------------------------ set_speed ------------------------------ *)
set_speed(speed) ==
    Begin("set_speed", 0, 0, 0, speed, SpeedCmd(speed), "set_speed_write", "")

set_speed_write ==
    /\ pc = "set_speed_write"
    /\ BulkOut("done")
    /\ UNCHANGED <<args, locals, nCtrl, nIn, nZero, devpos, iss, pins>>

(* -------------------------- i2c_start, i2c_stop ------------------------ *)
i2c_start ==
    Begin("i2c_start", 0, 0, 0, 0, StartCmd, "i2c_start_write", "")

i2c_start_write ==
    /\ pc = "i2c_start_write"
    /\ BulkOut("done")
    /\ UNCHANGED <<args, locals, nCtrl, nIn, nZero, devpos, iss, pins>>

i2c_stop ==
    Begin("i2c_stop", 0, 0, 0, 0, StopCmd, "i2c_stop_write", "")

i2c_stop_write ==
    /\ pc = "i2c_stop_write"
    /\ BulkOut("done")
    /\ UNCHANGED <<args, locals, nCtrl, nIn, nZero, devpos, iss, pins>>

(* ------------------------------ i2c_detect ----------------------------- *)
i2c_detect(addr) ==
    Begin("i2c_detect", 0, 0, 0, addr, DetectCmd(addr), "i2c_detect_write", "")

i2c_detect_write ==
    /\ pc = "i2c_detect_write"
    /\ BulkOut("i2c_detect_read")
    /\ UNCHANGED <<args, locals, nCtrl, nIn, nZero, devpos, iss, pins>>

\* rval = self.dev.read(self.EP_IN, I2CCommands.MAX); assert; return
i2c_detect_read ==
    /\ pc = "i2c_detect_read"
    /\ requested' = I2CCommands_MAX
    /\ \/ /\ BulkInCount(0)
          /\ Raise("USBError")
          /\ UNCHANGED rval
       \/ \E reply \in ProbeReplies(arg) :
            /\ BulkInCount(Len(reply))
            /\ rval' = reply
            /\ IF ReplyOk(reply)
               THEN /\ ret' = RetBool(AckBit(reply[1]))
                    /\ pc' = IF caller = "scan" THEN "scan_collect" ELSE "done"
                    /\ UNCHANGED err
               ELSE Raise("AssertionError")
    /\ UNCHANGED <<args, read_count, i, results, printed, nCtrl, nOut, shortWrite,
                   iss, pins>>

(* ------------------------- i2c_write_byte_check ------------------------ *)
i2c_write_byte_check(bb) ==
    Begin("i2c_write_byte_check", 0, 0, 0, bb, WriteByteCmd(bb),
          "i2c_write_byte_check_write", "")

i2c_write_byte_check_write ==
    /\ pc = "i2c_write_byte_check_write"
    /\ BulkOut("i2c_write_byte_check_read")
    /\ UNCHANGED <<args, locals, nCtrl, nIn, nZero, devpos, iss, pins>>

i2c_write_byte_check_read ==
    /\ pc = "i2c_write_byte_check_read"
    /\ requested' = I2CCommands_MAX
    /\ \/ /\ BulkInCount(0)
          /\ Raise("USBError")
          /\ UNCHANGED rval
       \/ \E reply \in ByteReplies :
            /\ BulkInCount(Len(reply))
            /\ rval' = reply
            /\ IF ReplyOk(reply)
               THEN Return(RetBool(AckBit(reply[1])))
               ELSE Raise("AssertionError")
    /\ UNCHANGED <<args, read_count, i, results, printed, nCtrl, nOut, shortWrite,
                   iss, pins>>

(* ----------------------------- i2c_read_block -------------------------- *)
i2c_read_block(length) ==
    Begin("i2c_read_block", 0, 0, 0, length, ReadBlockCmd, "i2c_read_block_write", "")

i2c_read_block_write ==
    /\ pc = "i2c_read_block_write"
    /\ BulkOut("i2c_read_block_read")
    /\ UNCHANGED <<args, locals, nCtrl, nIn, nZero, devpos, iss, pins>>

i2c_read_block_read ==
    /\ pc = "i2c_read_block_read"
    /\ requested' = I2CCommands_MAX
    /\ \/ /\ BulkInCount(0)
          /\ Raise("USBError")
          /\ UNCHANGED rval
       \/ \E n \in ReadLens(I2CCommands_MAX) :
            /\ BulkInCount(n)
            /\ rval' = Chunk(devpos, n)
            /\ Return(RetBytes(Chunk(devpos, n)))
    /\ UNCHANGED <<args, read_count, i, results, printed, nCtrl, nOut, shortWrite,
                   iss, pins>>

(* ------------------------------ eeprom_read ---------------------------- *)
\* variant: the limit off by one
RangeOk_OffByOne(st) == ~(st > EepromLimit + 1)

\* if start > 0x7ff: raise ValueError
RangeOk(st) == ~(st > EepromLimit)

eeprom_read(ad, st, ct) ==
    IF RangeOk(st)
    THEN Begin("eeprom_read", ad, st, ct, 0, EepromCmd(ad, st, ct),
               IF ct <= 32 THEN "eeprom_status1" ELSE "eeprom_write_multi", "")
    ELSE Begin("eeprom_read", ad, st, ct, 0, <<>>, "failed", "ValueError")

eeprom_status1 ==
    /\ pc = "eeprom_status1"
    /\ StatusRead("eeprom_write")
    /\ UNCHANGED <<args, locals, nOut, nIn, nZero, devpos, shortWrite>>

eeprom_write ==
    /\ pc = "eeprom_write"
    /\ BulkOut("eeprom_status2")
    /\ UNCHANGED <<args, locals, nCtrl, nIn, nZero, devpos, iss, pins>>

eeprom_status2 ==
    /\ pc = "eeprom_status2"
    /\ StatusRead("eeprom_recv")
    /\ UNCHANGED <<args, locals, nOut, nIn, nZero, devpos, shortWrite>>

\* q = self.dev.read(self.EP_IN, count); return q
eeprom_recv ==
    /\ pc = "eeprom_recv"
    /\ requested' = count
    /\ \/ /\ BulkInCount(0)
          /\ Raise("USBError")
          /\ UNCHANGED rval
       \/ \E n \in ReadLens(count) :
            /\ BulkInCount(n)
            /\ rval' = Chunk(devpos, n)
            /\ Return(RetBytes(Chunk(devpos, n)))
    /\ UNCHANGED <<args, read_count, i, results, printed, nCtrl, nOut, shortWrite,
                   iss, pins>>

eeprom_write_multi ==
    /\ pc = "eeprom_write_multi"
    /\ BulkOut("eeprom_loop")
    /\ UNCHANGED <<args, locals, nCtrl, nIn, nZero, devpos, iss, pins>>

\* variant: the chunk put in front
Accumulate_Prepend(acc, q) == q \o acc

\* rval += q
Accumulate(acc, q) == acc \o q

\* variant: the loop stops one byte early
LoopCond_Early(rc, ct) == rc + 1 < ct

\* while read_count < count
LoopCond(rc, ct) == rc < ct

\* variant: the request capped at the 32-byte maximum
LoopRequest_Capped(rc, ct) == Min(ct - rc, I2CCommands_MAX)

\* q = self.dev.read(self.EP_IN, count - read_count)
LoopRequest(rc, ct) == ct - rc

\* one iteration of the receive loop
eeprom_loop_read ==
    /\ pc = "eeprom_loop"
    /\ LoopCond(read_count, count)
    /\ requested' = LoopRequest(read_count, count)
    /\ \/ /\ BulkInCount(0)
          /\ Raise("USBError")
          /\ UNCHANGED <<read_count, rval>>
       \/ \E n \in ReadLens(LoopRequest(read_count, count)) :
            /\ BulkInCount(n)
            /\ read_count' = read_count + n
            /\ rval' = Accumulate(rval, Chunk(devpos, n))
            /\ UNCHANGED <<pc, ret, err>>
    /\ UNCHANGED <<args, i, results, printed, nCtrl, nOut, shortWrite, iss, pins>>

\* the loop condition fails: return rval
eeprom_loop_exit ==
    /\ pc = "eeprom_loop"
    /\ ~LoopCond(read_count, count)
    /\ Return(RetBytes(rval))
    /\ UNCHANGED <<args, locals, nCtrl, nOut, nIn, nZero, devpos, shortWrite, iss, pins>>

(* --------------------------------- scan -------------------------------- *)
scan ==
    Begin("scan", 0, 0, 0, 0, <<>>, "scan_loop", "")

\* for i in range(250): r = q.i2c_detect(i)
scan_probe ==
    /\ pc = "scan_loop"
    /\ i < ScanRange
    /\ caller' = "scan"
    /\ arg' = i
    /\ cmd' = DetectCmd(i)
    /\ pc' = "i2c_detect_write"
    /\ UNCHANGED <<op, address, start, count, dev, locals, nCtrl, nOut, nIn, nZero,
                   shortWrite, devpos, ret, err, iss, pins>>

\* variant: every probed address collected
Collect_All(found, a, r) == found \o <<a>>

\* variant: every other address skipped
NextAddr_Skip(a) == a + 2

\* for i in range(250): the address after a
NextAddr(a) == a + 1

\* if r: results += [i]
Collect(found, a, r) == IF r THEN found \o <<a>> ELSE found

scan_collect ==
    /\ pc = "scan_collect"
    /\ results' = Collect(results, i, ret.b)
    /\ i' = NextAddr(i)
    /\ caller' = "direct"
    /\ pc' = "scan_loop"
    /\ UNCHANGED <<op, address, start, count, arg, cmd, dev, read_count, rval, printed,
                   requested,
                   nCtrl, nOut, nIn, nZero, shortWrite, devpos, ret, err, iss, pins>>

\* the value of the call scan(q): the function has no return statement
ScanValue(found) == RetNone

\* print("Responses from i2c devices at: ", results, ...)
scan_print ==
    /\ pc = "scan_loop"
    /\ i = ScanRange
    /\ printed' = results
    /\ Return(ScanValue(results))
    /\ UNCHANGED <<args, read_count, rval, i, results, requested, nCtrl, nOut, nIn, nZero,
                   shortWrite, devpos, iss, pins>>

(* ------------------------- between two calls -------------------------- *)
\* the call has returned or raised; its frame is gone and the script goes on
\* to its next call on the same device
finish ==
    /\ pc \in {"done", "failed"}
    /\ pc' = "idle" /\ op' = "none" /\ caller' = "direct"
    /\ address' = 0 /\ start' = 0 /\ count' = 0 /\ arg' = 0
    /\ cmd' = <<>>
    /\ nCtrl' = 0 /\ nOut' = 0 /\ nIn' = 0 /\ nZero' = 0
    /\ shortWrite' = FALSE
    /\ read_count' = 0 /\ rval' = <<>> /\ devpos' = 0 /\ requested' = 0
    /\ ret' = RetNone /\ err' = ""
    /\ iss' = <<>> /\ pins' = NoPins
    /\ i' = 0 /\ results' = <<>> /\ printed' = <<>>
    /\ UNCHANGED dev

(* ------------------------------- Next ---------------------------------- *)
Next ==
    \/ \E speed \in Speeds : set_speed(speed)
    \/ set_speed_write
    \/ i2c_start
    \/ i2c_start_write
    \/ i2c_stop
    \/ i2c_stop_write
    \/ \E addr \in ProbeAddrs : i2c_detect(addr)
    \/ i2c_detect_write
    \/ i2c_detect_read
    \/ \E bb \in WriteBytes : i2c_write_byte_check(bb)
    \/ i2c_write_byte_check_write
    \/ i2c_write_byte_check_read
    \/ \E length \in BlockLengths : i2c_read_block(length)
    \/ i2c_read_block_write
    \/ i2c_read_block_read
    \/ \E ad \in Addresses, st \in Starts, ct \in Counts : eeprom_read(ad, st, ct)
    \/ eeprom_status1
    \/ eeprom_write
    \/ eeprom_status2
    \/ eeprom_recv
    \/ eeprom_write_multi
    \/ eeprom_loop_read
    \/ eeprom_loop_exit
    \/ scan
    \/ scan_probe
    \/ scan_collect
    \/ scan_print
    \/ finish

Spec == Init /\ [][Next]_vars

(* ======================= properties of the driver ====================== *)
Range(s) == { s[k] : k \in 1..Len(s) }

Transfers == nCtrl + nOut + nIn

BitSet(b, k) == (b \div Pow2(k)) % 2 = 1

(* ---- C1 --------------------------------------------------------------- *)
\* C1: eeprom_read with start > 0x7FF fails with ValueError before any USB
\* transfer (control or bulk) is issued; with start = 0x7FF the call is
\* accepted: it never raises ValueError, and it neither fails nor returns
\* before it has issued a transfer.
C1_RangeCheckedBeforeIO ==
    /\ (op = "eeprom_read" /\ start > 2047) =>
          (pc = "failed" /\ err = "ValueError" /\ Transfers = 0 /\ ret = RetNone)
    /\ (op = "eeprom_read" /\ start = 2047) =>
          /\ err # "ValueError"
          /\ pc \in {"eeprom_status1", "eeprom_write_multi"} \/ Transfers > 0

C1_Witness ==
    /\ op = "eeprom_read" /\ address = 160 /\ start = 2048 /\ count = 1
    /\ pc = "failed" /\ err = "ValueError" /\ Transfers = 0

(* ---- C2 --------------------------------------------------------------- *)
\* C2: when eeprom_read with count > 32 returns, its result is the
\* concatenation, in order of reception, of the bytes of all bulk-in reads
\* and has length exactly count; for count = 65 on a device that delivers at
\* most 32 bytes per read, at least two bulk-in reads were issued.
C2_MultiChunkResult ==
    (op = "eeprom_read" /\ count > 32 /\ pc = "done") =>
        /\ ret.kind = "bytes"
        /\ ret.bytes = Chunk(0, devpos)
        /\ Len(ret.bytes) = count
        /\ (count = 65 /\ dev.cap <= 32) => nIn >= 2

C2_Witness ==
    /\ op = "eeprom_read" /\ count = 65 /\ pc = "done" /\ dev.cap = 32
    /\ nIn >= 2 /\ Len(ret.bytes) = 65

(* ---- reading a command buffer the way the chip does ------------------- *)
\* A buffer is taken in 32-byte packets, each starting with the vendor opcode.
\* The input opcodes (0xc0 | n) of a buffer, in order: an output opcode
\* (0x80 | n) is followed by n operand bytes, every other opcode is one byte.
PacketStart(k) == (k - 1) % I2CCommands_MAX = 0

RECURSIVE InOpcodes(_, _)
InOpcodes(buf, k) ==
    IF k > Len(buf) THEN <<>>
    ELSE IF PacketStart(k) THEN InOpcodes(buf, k + 1)
    ELSE IF buf[k] >= I2CCommands_IN THEN <<buf[k]>> \o InOpcodes(buf, k + 1)
    ELSE IF buf[k] >= I2CCommands_OUT
         THEN InOpcodes(buf, k + 1 + (buf[k] - I2CCommands_OUT))
    ELSE InOpcodes(buf, k + 1)

\* positions of the stop opcodes of a buffer
RECURSIVE StopPositions(_, _)
StopPositions(buf, k) ==
    IF k > Len(buf) THEN {}
    ELSE IF PacketStart(k) THEN StopPositions(buf, k + 1)
    ELSE IF buf[k] >= I2CCommands_IN THEN StopPositions(buf, k + 1)
    ELSE IF buf[k] >= I2CCommands_OUT
         THEN StopPositions(buf, k + 1 + (buf[k] - I2CCommands_OUT))
    ELSE (IF buf[k] = I2CCommands_STO THEN {k} ELSE {}) \cup StopPositions(buf, k + 1)

Low6(b) == b % 64

RECURSIVE SumLow6(_)
SumLow6(ops) == IF ops = <<>> THEN 0 ELSE Low6(Head(ops)) + SumLow6(Tail(ops))

\* bytes a buffer asks for: the lengths of its "input N" opcodes, plus one
\* for the final bare "input" opcode
RequestedTotal(buf) ==
    LET ops == InOpcodes(buf, 1)
    IN  IF ops # <<>> /\ ops[Len(ops)] = I2CCommands_IN
        THEN SumLow6(ops) + 1
        ELSE SumLow6(ops)

\* eeprom_read, called with count > 32 and an offset in 0..0x7FF, has written
\* its command buffer
MultiWritten ==
    op = "eeprom_read" /\ count > 32 /\ start \in 0..EepromLimit /\ nOut > 0

(* ---- C3 --------------------------------------------------------------- *)
\* C3: for every count > 32 eeprom_read takes the multi-chunk path and the
\* command buffer it writes requests exactly count bytes in total.
C3_RequestsCount ==
    MultiWritten =>
        /\ nCtrl = 0
        /\ Len(cmd) > 32
        /\ RequestedTotal(cmd) = count

(* ---- C4 --------------------------------------------------------------- *)
\* C4: for every count > 32 the command buffer is a 32-byte input block
\* followed by continuation blocks that each start with the vendor I2C
\* opcode; no input opcode of the buffer encodes a length above 32; stop and
\* end appear only at the end of the final block.
C4_LengthsCapped ==
    MultiWritten =>
        /\ Len(cmd) > 32
        /\ cmd[1] = 170 /\ cmd[33] = 170
        /\ InOpcodes(cmd, 1)[1] = 192 + 32
        /\ \A k \in 1..Len(InOpcodes(cmd, 1)) : Low6(InOpcodes(cmd, 1)[k]) <= 32
        /\ StopPositions(cmd, 1) = {Len(cmd) - 1}
        /\ cmd[Len(cmd)] = 0

(* ---- C5 --------------------------------------------------------------- *)
InLoop == op = "eeprom_read" /\ count > 32 /\ pc = "eeprom_loop"

\* C5: the receive loop of eeprom_read (count > 32) reads exactly while the
\* accumulated length is below count and returns as soon as it reaches
\* count; a call whose reads all returned at least one byte has issued at
\* most count reads; the loop has no iteration cap: a read that returns no
\* byte leaves the loop where it was, however many reads came before.
C5_LoopRunsUntilCount ==
    /\ [](InLoop =>
            /\ read_count = Len(rval)
            /\ (read_count < count) <=> ENABLED eeprom_loop_read
            /\ (read_count >= count) <=> ENABLED eeprom_loop_exit)
    /\ []((op = "eeprom_read" /\ count > 32 /\ pc = "done") =>
            /\ read_count >= count
            /\ nZero = 0 => nIn <= count)
    /\ [][(InLoop /\ InLoop' /\ devpos' = devpos) =>
             (read_count' = read_count /\ rval' = rval /\ read_count' < count')]_vars

C5_Witness ==
    /\ op = "eeprom_read" /\ count = 33 /\ pc = "done"
    /\ nIn = 33 /\ nZero = 0 /\ read_count = 33

(* ---- C6 --------------------------------------------------------------- *)
WritingOps ==
    {"set_speed", "i2c_start", "i2c_stop", "i2c_detect", "i2c_write_byte_check",
     "i2c_read_block", "eeprom_read"}

\* C6: in every operation that writes a command buffer, a write that
\* reports a byte count different from the buffer length makes the
\* operation fail at once: it has raised, returns no result, has issued no
\* bulk-in read and no second write, and issues no transfer afterwards.
C6_ShortWriteIsFatal ==
    /\ [](shortWrite =>
            /\ pc = "failed" /\ err = "AssertionError" /\ ret = RetNone
            /\ op \in WritingOps => (nOut = 1 /\ nIn = 0 /\ rval = <<>>))
    /\ [][shortWrite =>
            \/ (nCtrl' = nCtrl /\ nOut' = nOut /\ nIn' = nIn)
            \/ (pc' = "idle" /\ nCtrl' = 0 /\ nOut' = 0 /\ nIn' = 0)]_vars

C6_Witness ==
    /\ shortWrite /\ op = "eeprom_read" /\ count = 32 /\ pc = "failed"
    /\ nCtrl = 1 /\ nOut = 1 /\ nIn = 0

(* ---- C7 --------------------------------------------------------------- *)
\* C7: i2c_detect returns true iff bit 0x80 of its one-byte reply is clear,
\* whatever the other seven bits are; i2c_write_byte_check classifies its
\* reply the same way.
C7_AckIsBit7Clear ==
    /\ (op \in {"i2c_detect", "i2c_write_byte_check"} /\ pc = "done") =>
          /\ ret.kind = "bool"
          /\ Len(rval) = 1
          /\ ret.b <=> (rval[1] \div 128) % 2 = 0
    /\ (pc = "scan_collect") =>
          /\ ret.kind = "bool"
          /\ Len(rval) = 1
          /\ ret.b <=> (rval[1] \div 128) % 2 = 0

C7_Witness ==
    /\ op = "i2c_detect" /\ pc = "done" /\ arg = 80
    /\ rval = <<127>> /\ ret = RetBool(TRUE)

(* ---- C8 --------------------------------------------------------------- *)
\* the elements of a set of numbers as an ascending list
RECURSIVE Ascending(_)
Ascending(S) ==
    IF S = {} THEN <<>>
    ELSE LET m == CHOOSE x \in S : \A y \in S : x <= y
         IN  <<m>> \o Ascending(S \ {m})

Responders == { a \in 0..249 : a \in dev.present }

\* C8 as stated: scan() returns exactly the list of addresses for which the
\* probe returned true, in ascending order.
C8_ScanReturnsList ==
    (op = "scan" /\ pc = "done") => ret = RetList(Ascending(Responders))

\* C8 amended: scan() collects exactly the list of addresses for which the
\* probe returned true, in ascending order and with no other address, and
\* prints it; the call itself returns no value.  With a device that
\* acknowledges only 0x50 and 0x57 the printed list is exactly [0x50, 0x57].
C8_ScanPrintsList ==
    (op = "scan" /\ pc = "done") =>
        /\ results = Ascending(Responders)
        /\ printed = results
        /\ ret = RetNone
        /\ dev.present = {80, 87} => printed = <<80, 87>>

C8_Witness ==
    /\ op = "scan" /\ pc = "done" /\ dev.present = {80, 87}
    /\ printed = <<80, 87>> /\ nOut = 250 /\ nIn = 250

(* ---- C9 --------------------------------------------------------------- *)
\* C9: set_speed sends the 3-byte buffer [0xaa, 0x60 OR tier, 0x00] with
\* tier 0 for khz < 100, 1 for 100 <= khz < 400, 2 for 400 <= khz < 750 and
\* 3 for khz >= 750.
C9_SpeedTier ==
    (op = "set_speed" /\ nOut > 0) =>
        /\ Len(cmd) = 3 /\ cmd[1] = 170 /\ cmd[3] = 0
        /\ arg < 100 => cmd[2] = 96
        /\ (100 <= arg /\ arg < 400) => cmd[2] = 97
        /\ (400 <= arg /\ arg < 750) => cmd[2] = 98
        /\ arg >= 750 => cmd[2] = 99

C9_Witness ==
    /\ op = "set_speed" /\ pc = "done" /\ arg = 750 /\ nOut = 1
    /\ cmd = <<170, 99, 0>>

(* ---- C10 -------------------------------------------------------------- *)
\* where each named flag sits in the raw block: <<name, byte, bit>>
FlagTable ==
    { <<"ERR", 3, 0>>, <<"PEMP", 3, 1>>, <<"INT", 3, 2>>, <<"SLCT", 3, 3>>,
      <<"WAIT", 3, 5>>, <<"DATAS", 3, 6>>, <<"ADDRS", 3, 7>>,
      <<"RESET", 2, 0>>, <<"WRITE", 2, 1>>, <<"SCL", 2, 6>>, <<"SDA", 2, 7>>,
      <<"D0", 1, 0>>, <<"D1", 1, 1>>, <<"D2", 1, 2>>, <<"D3", 1, 3>>,
      <<"D4", 1, 4>>, <<"D5", 1, 5>>, <<"D6", 1, 6>>, <<"D7", 1, 7>> }

\* C10: the status decoder composes the 32-bit value from the first four
\* bytes of the block, most significant first, and its flag set contains a
\* named flag iff that flag's bit is set in the value, bit 24+i being Di;
\* for the block with exactly ERR and SDA set the flag set is {ERR, SDA}.
C10_StatusDecode ==
    iss # <<>> =>
        /\ Len(iss) = 8
        /\ pins.as_bits = <<iss[1] * 256 + iss[2], iss[3] * 256 + iss[4]>>
        /\ Range(pins.names) = { f[1] : f \in { g \in FlagTable : BitSet(iss[g[2]], g[3]) } }
        /\ (iss[1] = 0 /\ iss[2] = 128 /\ iss[3] = 1 /\ iss[4] = 0) =>
              Range(pins.names) = {"ERR", "SDA"}

C10_Witness ==
    /\ iss = <<0, 128, 1, 0, 255, 255, 18, 52>>
    /\ Range(pins.names) = {"ERR", "SDA"}
    /\ op = "eeprom_read" /\ nCtrl = 2

(* ---- C11 -------------------------------------------------------------- *)
SingleBuilt == op = "eeprom_read" /\ count >= 1 /\ count <= 32 /\ cmd # <<>>

\* C11: for every count in 1..32 the command buffer of eeprom_read ends with
\* stop (0x75), end (0x00); the opcode just before stop is the bare "input"
\* opcode 0xc0; for count > 1 the opcode 0xc0 OR (count-1) comes immediately
\* before it, for count = 1 there is no such opcode.
C11_ReadSetupTail ==
    SingleBuilt =>
        LET n == Len(cmd) IN
        /\ cmd[n] = 0 /\ cmd[n - 1] = 117 /\ cmd[n - 2] = 192
        /\ count > 1 => (n = 12 /\ cmd[n - 3] = 192 + (count - 1)
                         /\ InOpcodes(cmd, 1) = <<192 + (count - 1), 192>>)
        /\ count = 1 => (n = 11 /\ InOpcodes(cmd, 1) = <<192>>)

C11_Witness ==
    /\ SingleBuilt /\ count = 16 /\ nOut = 1
    /\ cmd[9] = 207 /\ cmd[10] = 192 /\ cmd[11] = 117 /\ cmd[12] = 0

(* ---- C12 -------------------------------------------------------------- *)
\* C12: every command buffer written to the bulk-out endpoint, in any
\* sequence of driver operations, starts with the vendor I2C opcode (0xaa)
\* and has the end opcode (0x00) as its last byte.
C12_FramedBuffers ==
    nOut > 0 => (Len(cmd) >= 3 /\ cmd[1] = 170 /\ cmd[Len(cmd)] = 0)

C12_Witness ==
    /\ op = "i2c_stop" /\ nOut = 1 /\ pc = "done" /\ cmd = <<170, 117, 0>>

(* ---- C13 -------------------------------------------------------------- *)
\* C13: for every count <= 32 a call of eeprom_read that returns has made
\* exactly one bulk-out write and then exactly one bulk-in read, and the
\* data it returns has exactly count bytes.
C13_SingleChunkExact ==
    (op = "eeprom_read" /\ count <= 32 /\ start \in 0..EepromLimit /\ pc = "done") =>
        /\ nOut = 1 /\ nIn = 1
        /\ ret.kind = "bytes"
        /\ Len(ret.bytes) = count

(* ---- C15 -------------------------------------------------------------- *)
\* C15: for every count > 32 and every accepted start the first block of the
\* command buffer is padded with zero bytes to exactly 32 bytes: the byte at
\* offset 32 is the vendor I2C opcode of the continuation block and the
\* bytes at offsets 9..31 are all 0x00.
C15_FirstBlockPadded ==
    (op = "eeprom_read" /\ count > 32 /\ cmd # <<>>) =>
        /\ Len(cmd) > 33
        /\ cmd[33] = 170
        /\ cmd[9] = 224
        /\ \A k \in 9..31 : cmd[k + 1] = 0

C15_Witness ==
    /\ op = "eeprom_read" /\ count = 65 /\ start = 2047 /\ nOut = 1
    /\ Len(cmd) = 37 /\ cmd[33] = 170 /\ cmd[32] = 0 /\ cmd[10] = 0

(* ---- C18 -------------------------------------------------------------- *)
\* C18: eeprom_read issues USB transfers only when start lies in 0..0x7FF;
\* every other start, negative values included, is rejected with ValueError
\* before any transfer.
C18_OnlyInRange ==
    /\ (op = "eeprom_read" /\ Transfers > 0) => start \in 0..2047
    /\ (op = "eeprom_read" /\ start \notin 0..2047 /\ pc \in {"done", "failed"}) =>
          (pc = "failed" /\ err = "ValueError")

(* ---- C14 -------------------------------------------------------------- *)
InScan == op = "scan"

\* C14: scan probes the addresses 0, 1, ..., 249 in ascending order, each
\* exactly once: the probe of address a is the (a+1)-th write of the call;
\* when a probe raises, the scan stops there: the call has failed with the
\* probe's exception, and no further address is probed.
C14_ScanOrderAndAbort ==
    /\ [](InScan =>
            /\ i \in 0..250
            /\ pc = "scan_loop" => (nOut = i /\ nIn = i)
            /\ pc = "i2c_detect_write" => (arg = i /\ nOut = i /\ nIn = i /\ i < 250)
            /\ pc = "i2c_detect_read" => (arg = i /\ nOut = i + 1 /\ nIn = i)
            /\ pc = "scan_collect" => (arg = i /\ nOut = i + 1 /\ nIn = i + 1)
            /\ pc = "done" => (i = 250 /\ nOut = 250 /\ nIn = 250 /\ err = "")
            /\ pc = "failed" =>
                  /\ err \in {"USBError", "AssertionError"}
                  /\ arg = i /\ nOut = i + 1 /\ i < 250
                  /\ ret = RetNone /\ printed = <<>>)
    /\ [][(InScan /\ pc = "scan_loop" /\ pc' = "i2c_detect_write") =>
             (arg' = i /\ cmd' = <<170, 116, 128, i, 117, 0>>)]_vars
    /\ [][(InScan /\ InScan') => (i' = i \/ (i' = i + 1 /\ pc = "scan_collect"))]_vars
    /\ [][(InScan /\ pc = "failed") => pc' = "idle"]_vars

C14_Witness ==
    /\ InScan /\ pc = "failed" /\ err = "USBError" /\ i = 87 /\ arg = 87
    /\ nOut = 88 /\ nIn = 88 /\ results = <<80>>

(* ---- C17 -------------------------------------------------------------- *)
\* C17: i2c_detect and i2c_write_byte_check fail whenever the bulk-in reply
\* is not exactly one byte long (no byte, or two bytes and more): the call
\* raises and returns no ack/nak value; a call that returns had a one-byte
\* reply.
C17_ReplyLengthChecked ==
    /\ (op \in {"i2c_detect", "i2c_write_byte_check"} /\ nIn > 0 /\ Len(rval) # 1) =>
          (pc = "failed" /\ err \in {"AssertionError", "USBError"} /\ ret = RetNone)
    /\ (op \in {"i2c_detect", "i2c_write_byte_check"} /\ pc = "done") =>
          (Len(rval) = 1 /\ ret.kind = "bool")
    /\ (pc = "scan_collect") => (Len(rval) = 1 /\ ret.kind = "bool")

C17_Witness ==
    /\ op = "i2c_detect" /\ pc = "failed" /\ err = "AssertionError"
    /\ Len(rval) = 32 /\ nIn = 1 /\ ret = RetNone

(* ---- C16 -------------------------------------------------------------- *)
\* C16: in the receive loop of eeprom_read (count > 32) every bulk-in read
\* asks for exactly count minus the bytes accumulated so far, not capped at
\* 32; as no read returns more than it asked for, the length asked for is
\* always in 1..count and the accumulated length never exceeds count.
C16_RequestIsRemainder ==
    /\ []((op = "eeprom_read" /\ count > 32) =>
            /\ read_count <= count
            /\ Len(rval) = read_count
            /\ nIn > 0 => requested \in 1..count)
    /\ [][(InLoop /\ nIn' = nIn + 1) =>
             /\ requested' = count - read_count
             /\ read_count' - read_count <= requested'
             /\ read_count' <= count]_vars

C16_Witness ==
    /\ op = "eeprom_read" /\ count = 97 /\ pc = "eeprom_loop"
    /\ read_count = 1 /\ nIn = 2 /\ nZero = 1 /\ requested = 96

(* ---- C19 -------------------------------------------------------------- *)
\* The sub-address encoding over the whole offset range: eeprom_read is
\* called on device address 0xA0 with every start up to 0x800, on both paths.
CodecStarts == 0..(EepromLimit + 1)

CodecCounts == {1, 33}

NextCodec == \E st \in CodecStarts, ct \in CodecCounts : eeprom_read(160, st, ct)

SpecCodec == Init /\ [][NextCodec]_vars

\* C19: for device address 0xA0 and every start in 0..0x7FF the two
\* sub-address bytes written by eeprom_read are d = 0xA0 OR ((start >> 7)
\* AND 0x0E) and l = start AND 0xFF; start is recovered as ((d AND 0x0E) << 7)
\* OR l, so distinct offsets give distinct byte pairs, and bit 0 of d is
\* clear.
C19_SubAddressRoundTrip ==
    (op = "eeprom_read" /\ address = 160 /\ start \in 0..2047) =>
        /\ Len(cmd) >= 5
        /\ LET d == cmd[4]
               l == cmd[5]
           IN  /\ d = 160 + 2 * ((start \div 256) % 8)
               /\ l = start % 256
               /\ d \in 0..255 /\ l \in 0..255
               /\ ((d \div 2) % 8) * 256 + l = start
               /\ BitOr(BitAnd(d, 14) * 128, l) = start
               /\ d % 2 = 0

C19_Witness ==
    /\ op = "eeprom_read" /\ address = 160 /\ start = 1413 /\ count = 33
    /\ cmd[4] = 170 /\ cmd[5] = 133

====
